---- MODULE Spec2Model ----
(***************************************************************************)
(* watchtower-proxy (src/main.go): an HTTP relay that receives registry    *)
(* push webhooks on POST /api/webhooks/{id}, optionally filters them on    *)
(* push_data.tag, answers the caller, and forwards the body to Watchtower  *)
(* from a goroutine after a delay.                                         *)
(*                                                                         *)
(* Text that the code processes letter by letter (header names, JSON keys, *)
(* the WATCH_ONLY_FOR_LATEST_TAG value) is a sequence of one-character     *)
(* strings; text that the code only copies, compares whole or concatenates *)
(* (ids, header values, tags, bodies, URLs) is a TLA+ string.              *)
(***************************************************************************)
EXTENDS Integers, Sequences, FiniteSets, TLC

VARIABLES
    watchOnly,      \* main.go:36-42  filtering flag, fixed at startup
    watchtowerURL,  \* main.go:31,53-56  base URL, fixed at startup
    urlEnv,         \* main.go:31  WATCHTOWER_URL as read from the environment
    delaySecondsEnv, \* main.go:33  DELAY_SECONDS as read from the environment
    delaySeconds,   \* main.go:45-50  delay before forwarding, fixed at startup
    req,            \* per request: the inbound request as sent by the caller
    w,              \* per request: the http.ResponseWriter of the handler
    hpc,            \* per request: position of the handler
    local,          \* per request: the handler's locals captured by the goroutine
    spawned,        \* per request: the number of goroutines its handler started
    sleepArg,       \* per request: the duration its goroutine passed to time.Sleep
    tpc,            \* per request: position of the deferred goroutine
    outbound,       \* per request: the client.Do calls made, in order
    result          \* per request: what client.Do returned

\* the configuration, which no request changes
config == <<watchOnly, watchtowerURL, urlEnv, delaySecondsEnv, delaySeconds>>

vars == <<config, req, w, hpc, local, spawned, sleepArg, tpc, outbound, result>>

(***************************************************************************)
(* Letters: strings.ToLower and the canonical MIME header key.             *)
(***************************************************************************)
UpperLetters ==
    <<"A","B","C","D","E","F","G","H","I","J","K","L","M",
      "N","O","P","Q","R","S","T","U","V","W","X","Y","Z">>

LowerLetters ==
    <<"a","b","c","d","e","f","g","h","i","j","k","l","m",
      "n","o","p","q","r","s","t","u","v","w","x","y","z">>

\* the lower-case letter of each upper-case letter, and the converse
LowerOf == [c \in {UpperLetters[i] : i \in DOMAIN UpperLetters} |->
               LowerLetters[CHOOSE i \in DOMAIN UpperLetters : UpperLetters[i] = c]]

UpperOf == [c \in {LowerLetters[i] : i \in DOMAIN LowerLetters} |->
               UpperLetters[CHOOSE i \in DOMAIN LowerLetters : LowerLetters[i] = c]]

IsUpper(c) == c \in DOMAIN LowerOf

IsLower(c) == c \in DOMAIN UpperOf

LowerChar(c) == IF IsUpper(c) THEN LowerOf[c] ELSE c

UpperChar(c) == IF IsLower(c) THEN UpperOf[c] ELSE c

\* strings.ToLower on ASCII text
ToLower(s) == [i \in DOMAIN s |-> LowerChar(s[i])]

\* the texts: the operators on texts below are functions on Text applied
\* to their argument, so that the argument is evaluated once
Text == Seq(STRING)

\* bytes net/textproto accepts in a header field name, besides letters
\* (validHeaderFieldByte).  The backquote, which it accepts too, cannot be
\* written in a TLA+ string and is outside the alphabet of this module.
TokenPunctuation == {"!", "#", "$", "%", "&", "'", "*", "+", "-", ".", "^", "_", "|", "~",
                     "0", "1", "2", "3", "4", "5", "6", "7", "8", "9"}

IsTokenChar(c) == IsUpper(c) \/ IsLower(c) \/ c \in TokenPunctuation

\* textproto.CanonicalMIMEHeaderKey: the key under which the net/http server
\* stores a header of the inbound request in r.Header
CanonicalMIMEHeaderKey(s) ==
    IF \E i \in DOMAIN s : ~IsTokenChar(s[i])
    THEN s
    ELSE [i \in DOMAIN s |->
            IF i = 1 \/ s[i - 1] = "-" THEN UpperChar(s[i]) ELSE LowerChar(s[i])]

H_authorization == <<"a","u","t","h","o","r","i","z","a","t","i","o","n">>
H_Authorization == <<"A","u","t","h","o","r","i","z","a","t","i","o","n">>
H_AUTHORIZATION == <<"A","U","T","H","O","R","I","Z","A","T","I","O","N">>
H_ContentType == <<"C","o","n","t","e","n","t","-","T","y","p","e">>
H_content_type == <<"c","o","n","t","e","n","t","-","t","y","p","e">>
H_XCustom == <<"X","-","C","u","s","t","o","m">>
H_x_custom == <<"x","-","c","u","s","t","o","m">>
H_Host == <<"H","o","s","t">>
H_host == <<"h","o","s","t">>
H_TransferEncoding == <<"T","r","a","n","s","f","e","r","-","E","n","c","o","d","i","n","g">>
H_ContentLength == <<"C","o","n","t","e","n","t","-","L","e","n","g","t","h">>
H_Trailer == <<"T","r","a","i","l","e","r">>
H_Pragma == <<"P","r","a","g","m","a">>
H_CacheControl == <<"C","a","c","h","e","-","C","o","n","t","r","o","l">>

(***************************************************************************)
(* Numbers that need 64 bits: a natural number is the sequence of its      *)
(* decimal digits, most significant first, without leading zeros (zero is  *)
(* <<0>>); an int64 is a sign and a magnitude.                             *)
(***************************************************************************)
DigitOf == ("0" :> 0) @@ ("1" :> 1) @@ ("2" :> 2) @@ ("3" :> 3) @@ ("4" :> 4)
           @@ ("5" :> 5) @@ ("6" :> 6) @@ ("7" :> 7) @@ ("8" :> 8) @@ ("9" :> 9)

\* the least element of a non-empty set of integers
Least(S) == CHOOSE i \in S : \A j \in S : i <= j

\* sequences of decimal digits
Digits == Seq(0..9)

\* a natural number is the sequence of its decimal digits, most significant
\* first, without leading zeros; zero is <<0>>.  The operators below are
\* functions of their arguments underneath, so that an argument is
\* evaluated once however often its digits are read.
Normalize(a) ==
    LET N[x \in Digits] ==
            LET nonzero == {i \in DOMAIN x : x[i] # 0}
            IN  IF nonzero = {} THEN <<0>> ELSE SubSeq(x, Least(nonzero), Len(x))
    IN  N[a]

\* a < b, a = b, a > b as -1, 0, 1
Cmp(a, b) ==
    LET C[x \in Digits, y \in Digits] ==
            LET differ == {i \in DOMAIN x : x[i] # y[i]}
            IN  IF Len(x) < Len(y) THEN -1
                ELSE IF Len(x) > Len(y) THEN 1
                ELSE IF differ = {} THEN 0
                ELSE IF x[Least(differ)] < y[Least(differ)] THEN -1
                ELSE 1
    IN  C[a, b]

\* a - b for a >= b, digit by digit: the digit at i borrows when the digits
\* of a to its right make a smaller number than those of b
Sub(a, b) ==
    LET S[x \in Digits, y \in Digits] ==
            LET n == Len(x)
                yp == [i \in 1..n |-> IF i > n - Len(y) THEN y[i - (n - Len(y))] ELSE 0]
                differ(i) == {j \in (i + 1)..n : x[j] # yp[j]}
                borrow(i) == IF differ(i) # {} /\ x[Least(differ(i))] < yp[Least(differ(i))]
                             THEN 1 ELSE 0
            IN  Normalize([i \in 1..n |-> (x[i] - yp[i] - borrow(i) + 10) % 10])
    IN  S[a, b]

\* a mod m for a < 10 * m, by repeated subtraction
Reduce(a, m) ==
    LET R[x \in Digits] == IF Cmp(x, m) >= 0 THEN R[Sub(x, m)] ELSE x
    IN  R[a]

\* a mod m by long division: P[n] is the remainder of the first n digits
Mod(a, m) ==
    LET M[x \in Digits] ==
            LET P[n \in 0..Len(x)] ==
                    IF n = 0 THEN <<0>> ELSE Reduce(Normalize(P[n - 1] \o <<x[n]>>), m)
            IN  P[Len(x)]
    IN  M[a]

\* 2^63 and 2^64
Two63 == <<9,2,2,3,3,7,2,0,3,6,8,5,4,7,7,5,8,0,8>>

Two64 == <<1,8,4,4,6,7,4,4,0,7,3,7,0,9,5,5,1,6,1,6>>

Signed(neg, mag) == [neg |-> neg /\ mag # <<0>>, mag |-> mag]

\* the int64 that holds the low 64 bits of a natural number (two's complement)
WrapInt64(a) ==
    LET W[m \in Digits] ==
            IF Cmp(m, Two63) >= 0 THEN Signed(TRUE, Sub(Two64, m)) ELSE Signed(FALSE, m)
    IN  W[Mod(a, Two64)]

\* a natural number times 10^9, the nanoseconds of time.Second
TimesSecond(mag) == Normalize(mag \o <<0,0,0,0,0,0,0,0,0>>)

IsDigit(c) == c \in DOMAIN DigitOf

\* strconv.ParseInt(s, 10, 64): an optional sign, then one or more decimal
\* digits; a value outside -2^63 .. 2^63 - 1 is a range error
ParseInt(s) ==
    LET signed == Len(s) > 0 /\ s[1] \in {"+", "-"}
        neg == Len(s) > 0 /\ s[1] = "-"
        body == IF signed THEN Tail(s) ELSE s
        mag == Normalize([i \in DOMAIN body |-> DigitOf[body[i]]])
    IN  IF Len(body) = 0 \/ \E i \in DOMAIN body : ~IsDigit(body[i])
        THEN [err |-> TRUE, val |-> Signed(FALSE, <<0>>)]
        ELSE IF Cmp(mag, Two63) > 0 \/ (~neg /\ Cmp(mag, Two63) = 0)
        THEN [err |-> TRUE, val |-> Signed(FALSE, <<0>>)]
        ELSE [err |-> FALSE, val |-> Signed(neg, mag)]

(***************************************************************************)
(* JSON values, as the syntax tree of the body text, and the Unmarshal of  *)
(* encoding/json of such a value into DockerHubPayload.                    *)
(***************************************************************************)
K_push_data == <<"p","u","s","h","_","d","a","t","a">>
K_PUSH_DATA == <<"P","U","S","H","_","D","A","T","A">>
K_tag == <<"t","a","g">>
K_TAG == <<"T","A","G">>
K_repository == <<"r","e","p","o","s","i","t","o","r","y">>
K_name == <<"n","a","m","e">>
K_repo_name == <<"r","e","p","o","_","n","a","m","e">>
K_other == <<"o","t","h","e","r">>
K_pu_long_s_h_data == <<"p","u","Å","¿","h","_","d","a","t","a">>

JSyntaxError == [t |-> "syntax_error"]
JNull == [t |-> "null"]
JNum == [t |-> "number"]
JArr == [t |-> "array"]
JStr(s) == [t |-> "string", s |-> s]
JObj(members) == [t |-> "object", members |-> members]
Member(k, v) == [k |-> k, v |-> v]

\* the zero value of DockerHubPayload
ZeroPayload == [Tag |-> "", Name |-> "", RepoName |-> ""]

\* the UTF-8 bytes of U+017F, the long s, and of U+212A, the Kelvin sign
LongS == <<"Å", "¿">>

KelvinSign == <<"â", "", "ª">>

\* encoding/json foldName: an ASCII letter becomes its upper-case letter,
\* any other character the least character of its Unicode simple fold,
\* which is S for the long s and K for the Kelvin sign.  No other fold
\* holds an ASCII character, so every other byte is kept: the names of the
\* fields are ASCII.
FoldName(name) ==
    LET F[s \in Text] ==
            LET fold[i \in 1..(Len(s) + 1)] ==
                    IF i > Len(s) THEN <<>>
                    ELSE IF i + 1 <= Len(s) /\ SubSeq(s, i, i + 1) = LongS
                    THEN <<"S">> \o fold[i + 2]
                    ELSE IF i + 2 <= Len(s) /\ SubSeq(s, i, i + 2) = KelvinSign
                    THEN <<"K">> \o fold[i + 3]
                    ELSE <<UpperChar(s[i])>> \o fold[i + 1]
            IN  fold[1]
    IN  F[name]

\* a JSON object key selects the struct field of that name, compared exactly
\* or, failing that, by folded name
KeyIsField(key, field) == key = field \/ FoldName(key) = FoldName(field)

\* decoding into a Go string: a JSON string is stored, null leaves the
\* field as it is, anything else is an UnmarshalTypeError
DecodeString(v, cur) ==
    CASE v.t = "string" -> [err |-> FALSE, val |-> v.s]
      [] v.t = "null"   -> [err |-> FALSE, val |-> cur]
      [] OTHER          -> [err |-> TRUE, val |-> cur]

RECURSIVE DecodePushDataMembers(_, _, _)
DecodePushDataMembers(members, i, acc) ==
    IF i > Len(members) THEN acc
    ELSE LET m == members[i]
             d == DecodeString(m.v, acc.p.Tag)
         IN  IF KeyIsField(m.k, K_tag)
             THEN DecodePushDataMembers(members, i + 1,
                      [err |-> acc.err \/ d.err, p |-> [acc.p EXCEPT !.Tag = d.val]])
             ELSE DecodePushDataMembers(members, i + 1, acc)

RECURSIVE DecodeRepositoryMembers(_, _, _)
DecodeRepositoryMembers(members, i, acc) ==
    IF i > Len(members) THEN acc
    ELSE LET m == members[i]
             dn == DecodeString(m.v, acc.p.Name)
             dr == DecodeString(m.v, acc.p.RepoName)
         IN  IF KeyIsField(m.k, K_name)
             THEN DecodeRepositoryMembers(members, i + 1,
                      [err |-> acc.err \/ dn.err, p |-> [acc.p EXCEPT !.Name = dn.val]])
             ELSE IF KeyIsField(m.k, K_repo_name)
             THEN DecodeRepositoryMembers(members, i + 1,
                      [err |-> acc.err \/ dr.err, p |-> [acc.p EXCEPT !.RepoName = dr.val]])
             ELSE DecodeRepositoryMembers(members, i + 1, acc)

\* decoding into a nested struct: an object is decoded member by member,
\* null leaves the struct as it is, anything else is an UnmarshalTypeError
DecodePushData(v, acc) ==
    CASE v.t = "object" -> DecodePushDataMembers(v.members, 1, acc)
      [] v.t = "null"   -> acc
      [] OTHER          -> [acc EXCEPT !.err = TRUE]

DecodeRepository(v, acc) ==
    CASE v.t = "object" -> DecodeRepositoryMembers(v.members, 1, acc)
      [] v.t = "null"   -> acc
      [] OTHER          -> [acc EXCEPT !.err = TRUE]

RECURSIVE DecodePayloadMembers(_, _, _)
DecodePayloadMembers(members, i, acc) ==
    IF i > Len(members) THEN acc
    ELSE LET m == members[i]
         IN  IF KeyIsField(m.k, K_push_data)
             THEN DecodePayloadMembers(members, i + 1, DecodePushData(m.v, acc))
             ELSE IF KeyIsField(m.k, K_repository)
             THEN DecodePayloadMembers(members, i + 1, DecodeRepository(m.v, acc))
             ELSE DecodePayloadMembers(members, i + 1, acc)

\* json.Unmarshal(body, &payload): err is "err != nil"
Unmarshal(json) ==
    CASE json.t = "syntax_error" -> [err |-> TRUE, p |-> ZeroPayload]
      [] json.t = "object" -> DecodePayloadMembers(json.members, 1, [err |-> FALSE, p |-> ZeroPayload])
      [] json.t = "null"   -> [err |-> FALSE, p |-> ZeroPayload]
      [] OTHER             -> [err |-> TRUE, p |-> ZeroPayload]

(***************************************************************************)
(* Configuration read from the environment at startup (main.go:28-73).     *)
(***************************************************************************)
\* WEBHOOK_ID and WATCHTOWER_API_KEY of the modelled process (both required)
webhookID == "hook1"

apiKey == "k1"

E_unset == <<>>
E_true == <<"t","r","u","e">>
E_TRUE == <<"T","R","U","E">>
E_True == <<"T","r","u","e">>
E_false == <<"f","a","l","s","e">>
E_yes == <<"y","e","s">>

\* main.go:36-42
ParseWatchOnly(watchOnlyForLatestTag) == ToLower(watchOnlyForLatestTag) = E_true

U_example == <<"h","t","t","p","s",":","/","/","w","t",".","e","x","a","m","p","l","e",":","9","9","9","9">>
U_localhost == <<"l","o","c","a","l","h","o","s","t",":","8","0","8","0">>
U_update == <<"/","v","1","/","u","p","d","a","t","e">>
U_http == <<"h","t","t","p">>
U_https == <<"h","t","t","p","s">>

D_5 == <<"5">>
D_plus7 == <<"+","7">>
D_007 == <<"0","0","7">>
D_0 == <<"0">>
D_minus3 == <<"-","3">>
D_abc == <<"a","b","c">>
D_5s == <<"5","s">>
D_9223372036 == <<"9","2","2","3","3","7","2","0","3","6">>
D_9223372037 == <<"9","2","2","3","3","7","2","0","3","7">>
D_18446744074 == <<"1","8","4","4","6","7","4","4","0","7","4">>
D_maxint64 == <<"9","2","2","3","3","7","2","0","3","6","8","5","4","7","7","5","8","0","7">>
D_2pow63 == <<"9","2","2","3","3","7","2","0","3","6","8","5","4","7","7","5","8","0","8">>

\* the values of DELAY_SECONDS modelled
DelayEnvs == {E_unset, D_5, D_plus7, D_007, D_0, D_minus3, D_abc, D_5s, D_9223372036,
              D_9223372037, D_18446744074, D_maxint64, D_2pow63}

\* main.go:45
DefaultDelaySeconds == <<2, 0>>

\* fault variant of DelayAccepted: zero is accepted too
DelayAcceptedWithZero(parsed) == ~parsed.err /\ ~parsed.val.neg

\* main.go:47  err == nil && parsed > 0
DelayAccepted(parsed) == ~parsed.err /\ ~parsed.val.neg /\ parsed.val.mag # <<0>>

\* main.go:44-50: delaySeconds, as a natural number
ParseDelaySeconds(env) ==
    IF env # <<>> /\ DelayAccepted(ParseInt(env))
    THEN ParseInt(env).val.mag
    ELSE DefaultDelaySeconds

\* main.go:160  time.Duration(delaySeconds) * time.Second, an int64
SleepDuration(seconds) == WrapInt64(TimesSecond(seconds))

\* time.Sleep(d) pauses for at least d; a negative or zero d returns at once
SleepAtLeast(d) == IF d.neg THEN <<0>> ELSE d.mag

U_ipport == <<"1","9","2",".","1","6","8",".","1",".","1","0",":","8","0","8","0">>

U_httplocalhost == <<"h","t","t","p",":","/","/","l","o","c","a","l","h","o","s","t",":","8","0","8","0">>

\* fault variant of DefaultURL: the default of the second, unreachable test
\* (main.go:58-60) is the one in effect
DefaultURLWithScheme(env) == IF env = <<>> THEN U_httplocalhost ELSE env

\* main.go:53-56
DefaultURL(env) == IF env = <<>> THEN U_localhost ELSE env

\* strings.Index and strings.LastIndex of a byte, 0 when it is absent
Greatest(S) == CHOOSE i \in S : \A j \in S : i >= j

Index(text, c) ==
    LET I[s \in Text] ==
            IF \E i \in DOMAIN s : s[i] = c THEN Least({i \in DOMAIN s : s[i] = c}) ELSE 0
    IN  I[text]

LastIndex(text, c) ==
    LET L[s \in Text] ==
            IF \E i \in DOMAIN s : s[i] = c THEN Greatest({i \in DOMAIN s : s[i] = c}) ELSE 0
    IN  L[text]

\* strings.Cut: the text before the first c, and the text after it
Before(text, c) ==
    LET B[s \in Text] ==
            IF Index(s, c) = 0 THEN s ELSE SubSeq(s, 1, Index(s, c) - 1)
    IN  B[text]

After(text, c) ==
    LET A[s \in Text] ==
            IF Index(s, c) = 0 THEN <<>> ELSE SubSeq(s, Index(s, c) + 1, Len(s))
    IN  A[text]

HasPrefix(text, prefix) ==
    LET H[s \in Text] ==
            Len(s) >= Len(prefix) /\ SubSeq(s, 1, Len(prefix)) = prefix
    IN  H[text]

\* the bytes of a scheme other than letters
SchemePunctuation == {"+", "-", ".", "0", "1", "2", "3", "4", "5", "6", "7", "8", "9"}

\* net/url getScheme: the letters, digits, "+", "-" and "." before the first
\* ":" are the scheme, lower-cased by parse; a text with no such prefix has
\* no scheme
RECURSIVE GetScheme(_, _)
GetScheme(u, i) ==
    IF i > Len(u) THEN <<>>
    ELSE IF IsUpper(u[i]) \/ IsLower(u[i]) THEN GetScheme(u, i + 1)
    ELSE IF u[i] \in SchemePunctuation THEN (IF i = 1 THEN <<>> ELSE GetScheme(u, i + 1))
    ELSE IF u[i] = ":" /\ i > 1 THEN ToLower(SubSeq(u, 1, i - 1))
    ELSE <<>>

\* net/url getScheme: "missing protocol scheme"
MissingProtocolScheme(u) == Len(u) > 0 /\ u[1] = ":"

\* net/url getScheme: the text after the scheme and its colon
AfterScheme(text) ==
    LET A[u \in Text] ==
            IF GetScheme(u, 1) = <<>> THEN u ELSE SubSeq(u, Len(GetScheme(u, 1)) + 2, Len(u))
    IN  A[text]

\* net/url parse: the text after the scheme, without its query
SchemeSpecific(text) ==
    LET S[u \in Text] ==
            Before(AfterScheme(u), "?")
    IN  S[text]

\* net/url parse: the text before the first "/" holds a ":"
FirstSegmentHasColon(text) ==
    LET F[rest \in Text] ==
            Index(Before(rest, "/"), ":") # 0
    IN  F[text]

\* net/url parse: the text has an authority after "//"
HasAuthority(text) ==
    LET H[u \in Text] ==
            /\ HasPrefix(SchemeSpecific(u), <<"/", "/">>)
            /\ GetScheme(u, 1) # <<>> \/ ~HasPrefix(SchemeSpecific(u), <<"/", "/", "/">>)
    IN  H[text]

\* net/url parse: the authority, up to the next "/"
Authority(text) ==
    LET A[u \in Text] ==
            IF HasAuthority(u)
            THEN Before(SubSeq(SchemeSpecific(u), 3, Len(SchemeSpecific(u))), "/")
            ELSE <<>>
    IN  A[text]

\* net/url parse: the path, which follows the authority if there is one
PathOf(text) ==
    LET P[u \in Text] ==
            IF HasAuthority(u)
            THEN SubSeq(SchemeSpecific(u), 3 + Len(Authority(u)), Len(SchemeSpecific(u)))
            ELSE SchemeSpecific(u)
    IN  P[text]

\* net/url parseAuthority: the host follows the last "@"
HostOf(text) ==
    LET H[authority \in Text] ==
            SubSeq(authority, LastIndex(authority, "@") + 1, Len(authority))
    IN  H[text]

UserinfoOf(text) ==
    LET U[authority \in Text] ==
            SubSeq(authority, 1, LastIndex(authority, "@") - 1)
    IN  U[text]

HexDigits == {"0", "1", "2", "3", "4", "5", "6", "7", "8", "9",
              "a", "b", "c", "d", "e", "f", "A", "B", "C", "D", "E", "F"}

\* net/url unescape: a "%" that is not followed by two hexadecimal digits
BadEscape(text) ==
    LET B[s \in Text] ==
            \E i \in DOMAIN s :
                s[i] = "%" /\ ~(i + 2 <= Len(s) /\ s[i + 1] \in HexDigits /\ s[i + 2] \in HexDigits)
    IN  B[text]

\* net/url shouldEscape, for a host: the bytes that need no escape there
HostPunctuation == {"!", "$", "&", "'", "(", ")", "*", "+", ",", ";", "=", ":", "[", "]",
                    "<", ">", "\"", "-", "_", ".", "~"}

\* the bytes from 0x80 on; a text is a sequence of bytes, a byte the
\* character of its number
HighBytes == {"", "", "", "", "", "", "", "", "", "", "", "", "", "", "", "",
              "", "", "", "", "", "", "", "", "", "", "", "", "", "", "", "",
              " ", "¡", "¢", "£", "¤", "¥", "¦", "§", "¨", "©", "ª", "«", "¬", "­", "®", "¯",
              "°", "±", "²", "³", "´", "µ", "¶", "·", "¸", "¹", "º", "»", "¼", "½", "¾", "¿",
              "À", "Á", "Â", "Ã", "Ä", "Å", "Æ", "Ç", "È", "É", "Ê", "Ë", "Ì", "Í", "Î", "Ï",
              "Ð", "Ñ", "Ò", "Ó", "Ô", "Õ", "Ö", "×", "Ø", "Ù", "Ú", "Û", "Ü", "Ý", "Þ", "ß",
              "à", "á", "â", "ã", "ä", "å", "æ", "ç", "è", "é", "ê", "ë", "ì", "í", "î", "ï",
              "ð", "ñ", "ò", "ó", "ô", "õ", "ö", "÷", "ø", "ù", "ú", "û", "ü", "ý", "þ", "ÿ"}

HostByte(c) == IsUpper(c) \/ IsLower(c) \/ IsDigit(c) \/ c \in HostPunctuation

\* net/url unescape of a host: besides a bad escape, an escape of a byte
\* below 0x80 other than %25, and a byte below 0x80 that would need an
\* escape
BadHostText(text) ==
    LET B[s \in Text] ==
            \/ BadEscape(s)
            \/ \E i \in DOMAIN s :
                  /\ s[i] = "%"
                  /\ s[i + 1] \in {"0", "1", "2", "3", "4", "5", "6", "7"}
                  /\ SubSeq(s, i, i + 2) # <<"%", "2", "5">>
            \/ \E i \in DOMAIN s : s[i] # "%" /\ s[i] \notin HighBytes /\ ~HostByte(s[i])
    IN  B[text]

\* the escapes of the bytes that need no escape in a host, and of the space
UnreservedEscapes ==
    {<<"2", h>> : h \in {"0", "1", "2", "4", "5", "6", "7", "8", "9", "A", "B", "C", "D", "E"}}
    \cup {<<"3", h>> : h \in {"0", "1", "2", "3", "4", "5", "6", "7", "8", "9", "A", "B", "C", "D", "E"}}
    \cup {<<"4", h>> : h \in {"1", "2", "3", "4", "5", "6", "7", "8", "9", "A", "B", "C", "D", "E", "F"}}
    \cup {<<"5", h>> : h \in {"0", "1", "2", "3", "4", "5", "6", "7", "8", "9", "A", "B", "D", "F"}}
    \cup {<<"6", h>> : h \in {"1", "2", "3", "4", "5", "6", "7", "8", "9", "A", "B", "C", "D", "E", "F"}}
    \cup {<<"7", h>> : h \in {"0", "1", "2", "3", "4", "5", "6", "7", "8", "9", "A", "E"}}

\* net/url unescape of an IPv6 zone: besides a bad escape, an escape of a
\* byte that would need one in a host, and a byte below 0x80 that would
\* need an escape
BadZoneText(text) ==
    LET B[s \in Text] ==
            \/ BadEscape(s)
            \/ \E i \in DOMAIN s :
                  /\ s[i] = "%"
                  /\ <<UpperChar(s[i + 1]), UpperChar(s[i + 2])>> \notin UnreservedEscapes
            \/ \E i \in DOMAIN s : s[i] # "%" /\ s[i] \notin HighBytes /\ ~HostByte(s[i])
    IN  B[text]

\* net/url validOptionalPort: nothing, or a colon and digits
ValidOptionalPort(text) ==
    LET V[port \in Text] ==
            port = <<>> \/ (port[1] = ":" /\ \A i \in 2..Len(port) : IsDigit(port[i]))
    IN  V[text]

\* strings.Index(s, "%25"), 0 when it is absent
ZoneIndex(text) ==
    LET Z[s \in Text] ==
            IF \E i \in 1..(Len(s) - 2) : SubSeq(s, i, i + 2) = <<"%", "2", "5">>
            THEN Least({i \in 1..(Len(s) - 2) : SubSeq(s, i, i + 2) = <<"%", "2", "5">>})
            ELSE 0
    IN  Z[text]

\* net/url parseHost returns an error
ParseHostFails(text) ==
    LET P[host \in Text] ==
            IF HasPrefix(host, <<"[">>)
            THEN LET close == LastIndex(host, "]")
                     zone == ZoneIndex(SubSeq(host, 1, close - 1))
                 IN  \/ close = 0
                     \/ ~ValidOptionalPort(SubSeq(host, close + 1, Len(host)))
                     \/ IF zone # 0
                        THEN \/ BadHostText(SubSeq(host, 1, zone - 1))
                             \/ BadZoneText(SubSeq(host, zone, close - 1))
                             \/ BadHostText(SubSeq(host, close, Len(host)))
                        ELSE BadHostText(host)
            ELSE \/ /\ LastIndex(host, ":") # 0
                    /\ ~ValidOptionalPort(SubSeq(host, LastIndex(host, ":"), Len(host)))
                 \/ BadHostText(host)
    IN  P[text]

\* net/url validUserinfo: the bytes of a user name and password
UserinfoPunctuation == {"-", ".", "_", ":", "~", "!", "$", "&", "'", "(", ")", "*", "+", ",",
                        ";", "=", "%", "@"}

ValidUserinfo(text) ==
    LET V[s \in Text] ==
            \A i \in DOMAIN s :
                IsUpper(s[i]) \/ IsLower(s[i]) \/ IsDigit(s[i]) \/ s[i] \in UserinfoPunctuation
    IN  V[text]

\* net/url parseAuthority returns an error
ParseAuthorityFails(text) ==
    LET P[authority \in Text] ==
            \/ ParseHostFails(HostOf(authority))
            \/ /\ LastIndex(authority, "@") # 0
               /\ ~ValidUserinfo(UserinfoOf(authority)) \/ BadEscape(UserinfoOf(authority))
    IN  P[text]

\* net/url stringContainsCTLByte: the bytes below 0x20, and 0x7f; the byte
\* 0x00 is in no value of an environment variable
ControlBytes == {"", "", "", "", "", "", "", "", "\t", "\n", "", "\f", "\r", "", "",
                 "", "", "", "", "", "", "", "", "", "", "", "", "", "", "", "",
                 ""}

\* net/url parse returns an error, for the text before "#".  A text with
\* a scheme and no leading "/" is kept whole as an opaque URL.
ParseFails(text) ==
    LET P[u \in Text] ==
            \/ \E i \in DOMAIN u : u[i] \in ControlBytes
            \/ /\ u # <<"*">>
               /\ \/ MissingProtocolScheme(u)
                  \/ /\ HasPrefix(SchemeSpecific(u), <<"/">>) \/ GetScheme(u, 1) = <<>>
                     /\ \/ /\ ~HasPrefix(SchemeSpecific(u), <<"/">>)
                           /\ FirstSegmentHasColon(SchemeSpecific(u))
                        \/ HasAuthority(u) /\ ParseAuthorityFails(Authority(u))
                        \/ BadEscape(PathOf(u))
    IN  P[text]

\* url.Parse returns an error: for the text before "#", or for the
\* fragment after it
URLParseFails(text) ==
    LET U[u \in Text] ==
            ParseFails(Before(u, "#")) \/ BadEscape(After(u, "#"))
    IN  U[text]

\* fault variant of NewRequestFails: the error of http.NewRequest is not
\* looked at
NewRequestNeverFails(url) == FALSE

\* http.NewRequest("POST", url, body) fails when url.Parse does
NewRequestFails(u) == URLParseFails(u)

\* client.Do reaches the network only for an http or https URL
SchemeSupported(text) ==
    LET S[u \in Text] ==
            GetScheme(Before(u, "#"), 1) \in {U_http, U_https}
    IN  S[text]

\* Request.URL.Host, as http.NewRequest leaves it, is empty: the host and
\* port of the authority, without an empty port.  The escapes of the host
\* are taken as written: the unescaped host is empty exactly when the
\* written one is.
NoRequestHost(text) ==
    LET R[u \in Text] ==
            LET host == HostOf(Authority(Before(u, "#")))
            IN  <<>> = IF /\ Len(host) > 0
                          /\ host[Len(host)] = ":"
                          /\ LastIndex(host, ":") > LastIndex(host, "]")
                       THEN SubSeq(host, 1, Len(host) - 1)
                       ELSE host
    IN  R[text]

(***************************************************************************)
(* Inbound requests.                                                       *)
(***************************************************************************)
Hdr(name, value) == [name |-> name, value |-> value]

\* a body: its bytes, the JSON value of the bytes, and the JSON values of
\* those of its beginnings that are JSON texts, by their lengths
Body(raw, json) == [raw |-> raw, json |-> json, prefixes |-> <<>>]

\* a body followed by bytes that are no white space: the whole is no JSON
\* text, its beginning of the length of the body is
Followed(body, text) ==
    [raw |-> body.raw \o text, json |-> JSyntaxError,
     prefixes |-> [n \in DOMAIN body.prefixes \cup {Len(body.raw)} |->
                     IF n = Len(body.raw) THEN body.json ELSE body.prefixes[n]]]

B_latest ==
    Body("{\"push_data\":{\"tag\":\"latest\"},\"repository\":{\"name\":\"app\"}}",
         JObj(<<Member(K_push_data, JObj(<<Member(K_tag, JStr("latest"))>>)),
                Member(K_repository, JObj(<<Member(K_name, JStr("app"))>>))>>))

B_v123 ==
    Body("{\"push_data\":{\"tag\":\"v1.2.3\"},\"repository\":{\"name\":\"app\"}}",
         JObj(<<Member(K_push_data, JObj(<<Member(K_tag, JStr("v1.2.3"))>>)),
                Member(K_repository, JObj(<<Member(K_name, JStr("app"))>>))>>))

B_notjson == Body("not-json", JSyntaxError)

B_empty == Body("", JSyntaxError)

B_emptyobj == Body("{}", JObj(<<>>))

B_null == Body("null", JNull)

B_array == Body("[]", JArr)

B_emptytag == Body("{\"push_data\":{\"tag\":\"\"}}",
                   JObj(<<Member(K_push_data, JObj(<<Member(K_tag, JStr(""))>>))>>))

B_tagnull == Body("{\"push_data\":{\"tag\":null},\"repository\":null}",
                  JObj(<<Member(K_push_data, JObj(<<Member(K_tag, JNull)>>)),
                         Member(K_repository, JNull)>>))

B_tagnumber == Body("{\"push_data\":{\"tag\":1}}",
                    JObj(<<Member(K_push_data, JObj(<<Member(K_tag, JNum)>>))>>))

B_upper == Body("{\"PUSH_DATA\":{\"TAG\":\"latest\"}}",
                JObj(<<Member(K_PUSH_DATA, JObj(<<Member(K_TAG, JStr("latest"))>>))>>))

B_twice == Body("{\"push_data\":{\"tag\":\"latest\"},\"push_data\":{\"tag\":\"dev\"}}",
                JObj(<<Member(K_push_data, JObj(<<Member(K_tag, JStr("latest"))>>)),
                       Member(K_push_data, JObj(<<Member(K_tag, JStr("dev"))>>))>>))

B_reponame ==
    Body("{\"other\":1,\"push_data\":{\"tag\":\"dev\"},\"repository\":{\"repo_name\":\"org/app\"}}",
         JObj(<<Member(K_other, JNum),
                Member(K_push_data, JObj(<<Member(K_tag, JStr("dev"))>>)),
                Member(K_repository, JObj(<<Member(K_repo_name, JStr("org/app"))>>))>>))

\* the key of push_data written with the long s
B_long_s == Body("{\"puÅ¿h_data\":{\"tag\":\"dev\"}}",
                 JObj(<<Member(K_pu_long_s_h_data, JObj(<<Member(K_tag, JStr("dev"))>>))>>))

\* bodies with a byte after the JSON text
B_emptyobj_x == Followed(B_emptyobj, "x")

B_v123_x == Followed(B_v123, "x")

B_latest_x == Followed(B_latest, "x")

AllBodies == {B_latest, B_v123, B_notjson, B_empty, B_emptyobj, B_null, B_array,
              B_emptytag, B_tagnull, B_tagnumber, B_upper, B_twice, B_reponame, B_long_s}

Ids == {"hook1", "other"}

\* the Authorization lines of a request
AuthLines == {<<>>,
              <<Hdr(H_Authorization, "tokA")>>,
              <<Hdr(H_authorization, "tokA")>>,
              <<Hdr(H_AUTHORIZATION, "tokB")>>,
              <<Hdr(H_Authorization, "tokA"), Hdr(H_authorization, "tokB")>>}

ContentTypeLines == {<<>>,
                     <<Hdr(H_ContentType, "text/plain")>>,
                     <<Hdr(H_content_type, "application/json")>>}

CustomLines == {<<>>, <<Hdr(H_x_custom, "x1"), Hdr(H_XCustom, "x2")>>}

\* every HTTP/1.1 request that reaches the handler has a Host line
HostLine == Hdr(H_Host, "proxy:3000")

\* header blocks with lines the server treats on its own
ServerLines == {<<HostLine, Hdr(H_XCustom, "x2")>>,
                <<Hdr(H_host, "proxy:3000")>>,
                <<HostLine, Hdr(H_Pragma, "no-cache")>>}

\* the header block of a caller that repeats the value of its Authorization
\* line under another name
RepeatedLines == <<HostLine, Hdr(H_authorization, "tokA"), Hdr(H_XCustom, "tokA")>>

\* the header block of a request with a chunked body
ChunkedLines == <<HostLine, Hdr(H_TransferEncoding, "chunked"), Hdr(H_Trailer, "X-Sum"),
                  Hdr(H_x_custom, "x1"), Hdr(H_XCustom, "x2")>>

AllHeaders ==
    {<<HostLine>> \o a \o c \o x : a \in AuthLines, c \in ContentTypeLines, x \in CustomLines}
    \cup ServerLines \cup {RepeatedLines}

FewHeaders == {<<HostLine, Hdr(H_authorization, "tokA"), Hdr(H_XCustom, "x2")>>,
               <<HostLine, Hdr(H_Authorization, "tokB"), Hdr(H_ContentType, "text/plain")>>}

\* the protocol versions of a request: HTTP/major.minor
Proto(major, minor) == [major |-> major, minor |-> minor]

HTTP10 == Proto(1, 0)

HTTP11 == Proto(1, 1)

HTTP12 == Proto(1, 2)

\* a request as its caller sends it: the id of the path, the protocol
\* version, the header lines, the bytes of the body, and whether the
\* connection breaks before the body is through
Request(id, proto, header, body, readErr) ==
    [id |-> id, proto |-> proto, header |-> header, body |-> body, readErr |-> readErr]

\* a natural number in decimal digits
RECURSIVE Itoa(_)
Itoa(n) ==
    LET digit == SubSeq("0123456789", (n % 10) + 1, (n % 10) + 1)
    IN  IF n < 10 THEN digit ELSE Itoa(n \div 10) \o digit

\* the header lines of a caller that announces a body of n bytes
Announcing(lines, n) == lines \o <<Hdr(H_ContentLength, Itoa(n))>>

\* the header lines of a caller that announces the length of its body
WithLength(lines, body) == Announcing(lines, Len(body.raw))

\* requests whose Content-Length ends the body before the bytes sent do:
\* after a JSON text, and within one
CutRequests ==
    {Request("hook1", HTTP11, Announcing(<<HostLine>>, Len(b.raw) - 1), b, FALSE) :
        b \in {B_emptyobj_x, B_v123_x, B_latest_x}}
    \cup {Request("hook1", HTTP11, Announcing(<<HostLine>>, 5), B_latest, FALSE)}

\* requests of HTTP/1.1 and of HTTP/1.2 with a Content-Length, and with a
\* chunked body; requests of HTTP/1.0, whose Transfer-Encoding the server
\* ignores; requests that announce no body; and requests whose
\* Content-Length is less than the bytes sent
AllRequests ==
    {Request(id, HTTP11, WithLength(h, b), b, e) :
        id \in Ids, h \in AllHeaders, b \in AllBodies, e \in BOOLEAN}
    \cup {Request(id, HTTP11, ChunkedLines, b, e) :
            id \in Ids, b \in AllBodies, e \in BOOLEAN}
    \cup UNION {{Request("hook1", HTTP12, h, b, e) :
                    h \in {ChunkedLines, WithLength(ChunkedLines, b), WithLength(<<HostLine>>, b)},
                    e \in BOOLEAN} : b \in {B_latest, B_v123, B_notjson}}
    \cup {Request("hook1", HTTP10, WithLength(h, b), b, FALSE) :
            h \in {<<>>, ChunkedLines}, b \in {B_latest, B_v123}}
    \cup {Request("hook1", proto, h, B_empty, FALSE) :
            proto \in {HTTP10, HTTP11, HTTP12}, h \in {<<HostLine>>, ChunkedLines}}
    \cup CutRequests

FewRequests ==
    {Request("hook1", HTTP11, WithLength(h, b), b, FALSE) : h \in FewHeaders, b \in {B_latest, B_v123}}
    \cup {Request("hook1", HTTP12, ChunkedLines, B_latest, FALSE)}
    \cup {Request("hook1", HTTP11, WithLength(<<HostLine>>, B_notjson), B_notjson, FALSE),
          Request("hook1", HTTP11, WithLength(<<HostLine>>, B_latest), B_latest, TRUE),
          Request("other", HTTP11, WithLength(<<HostLine>>, B_latest), B_latest, FALSE)}

NoRequest ==
    [id |-> "", proto |-> HTTP11, header |-> <<>>, body |-> Body("", JSyntaxError), readErr |-> FALSE]

(***************************************************************************)
(* The handler of POST /api/webhooks/{id} (main.go:85-222).                *)
(***************************************************************************)
\* textproto.Reader.ReadMIMEHeader: every header line is stored under its
\* canonical key, the values of equally named lines in arrival order
LineValues(lines, key) ==
    LET sel == SelectSeq(lines, LAMBDA h : CanonicalMIMEHeaderKey(h.name) = key)
    IN  [i \in DOMAIN sel |-> sel[i].value]

ReadMIMEHeader(lines) ==
    [key \in {CanonicalMIMEHeaderKey(lines[i].name) : i \in DOMAIN lines} |-> LineValues(lines, key)]

\* a header without the keys given
Without(header, keys) == [key \in DOMAIN header \ keys |-> header[key]]

\* net/http fixPragmaCacheControl: Pragma: no-cache stands for
\* Cache-Control: no-cache when there is no Cache-Control
FixPragmaCacheControl(header) ==
    IF /\ H_Pragma \in DOMAIN header
       /\ header[H_Pragma][1] = "no-cache"
       /\ H_CacheControl \notin DOMAIN header
    THEN [key \in DOMAIN header \cup {H_CacheControl} |->
            IF key = H_CacheControl THEN <<"no-cache">> ELSE header[key]]
    ELSE header

\* net/http protoAtLeast
ProtoAtLeast(proto, major, minor) ==
    proto.major > major \/ (proto.major = major /\ proto.minor >= minor)

\* net/http readTransfer, for a request the server hands to a handler: a
\* Transfer-Encoding is removed; in a request of HTTP/1.1 or later it is the single
\* value chunked, and Content-Length and Trailer are removed with it; a
\* Content-Length given more than once, which is then the same value each
\* time, is kept once
ReadTransfer(header, proto) ==
    LET chunked == H_TransferEncoding \in DOMAIN header /\ ProtoAtLeast(proto, 1, 1)
        read == Without(header, {H_TransferEncoding})
        kept == IF chunked THEN Without(read, {H_ContentLength, H_Trailer}) ELSE read
    IN  [key \in DOMAIN kept |->
            IF key = H_ContentLength THEN <<kept[key][1]>> ELSE kept[key]]

\* r.Header as the handler finds it: the lines read, the Pragma and
\* transfer fixes, and the Host line removed (it is in r.Host)
RequestHeader(lines, proto) ==
    Without(ReadTransfer(FixPragmaCacheControl(ReadMIMEHeader(lines)), proto), {H_Host})

\* r.Header.Values(key)
ValuesOf(rq, key) ==
    IF key \in DOMAIN RequestHeader(rq.header, rq.proto)
    THEN RequestHeader(rq.header, rq.proto)[key]
    ELSE <<>>

\* net/http readTransfer: the body of the request is chunked
Chunked(rq) ==
    ProtoAtLeast(rq.proto, 1, 1) /\ H_TransferEncoding \in DOMAIN ReadMIMEHeader(rq.header)

\* strconv.ParseUint of the digits of a Content-Length
ParseContentLength(value) ==
    LET n[i \in 0..Len(value)] ==
            IF i = 0 THEN 0 ELSE 10 * n[i - 1] + DigitOf[SubSeq(value, i, i)]
    IN  n[Len(value)]

\* net/http fixLength: the length of the body of a request that is not
\* chunked is its Content-Length, and 0 without one
ContentLength(rq) ==
    LET header == ReadMIMEHeader(rq.header)
    IN  IF H_ContentLength \in DOMAIN header
        THEN ParseContentLength(header[H_ContentLength][1])
        ELSE 0

\* the first n bytes of a body
Prefix(body, n) ==
    [raw |-> SubSeq(body.raw, 1, n),
     json |-> IF n \in DOMAIN body.prefixes THEN body.prefixes[n] ELSE JSyntaxError,
     prefixes |-> [i \in {j \in DOMAIN body.prefixes : j < n} |-> body.prefixes[i]]]

\* r.Body, as io.ReadAll returns it: the chunked body, or the bytes of the
\* Content-Length, none without one
RequestBody(rq) ==
    IF Chunked(rq) \/ ContentLength(rq) >= Len(rq.body.raw)
    THEN rq.body
    ELSE Prefix(rq.body, ContentLength(rq))

\* a fresh http.ResponseWriter: no status line written, empty body
NewResponseWriter == [status |-> 0, body |-> "", headerWrites |-> 0]

\* w.WriteHeader: the first call fixes the status, later calls are ignored
WriteHeader(rw, code) ==
    [rw EXCEPT !.status = IF rw.status = 0 THEN code ELSE rw.status,
               !.headerWrites = rw.headerWrites + 1]

\* w.Write: appends to the body (and writes status 200 first if none was written)
Write(rw, text) ==
    LET rw1 == IF rw.status = 0 THEN WriteHeader(rw, 200) ELSE rw
    IN  [rw1 EXCEPT !.body = rw1.body \o text]

\* http.Error(w, msg, code)
HttpError(rw, msg, code) == Write(WriteHeader(rw, code), msg \o "\n")

\* fault variant of IdMatches: the id check is missing
IdMatchesAlways(id) == TRUE

\* main.go:90

IdMatches(id) == id = webhookID

\* fault variant of ReadAllFails: the error of io.ReadAll is not looked at
ReadAllErrorIgnored(rq) == FALSE

\* main.go:98-99  err != nil of io.ReadAll(r.Body): the connection breaks,
\* or ends with fewer bytes than the Content-Length, while there is a body
\* to read
ReadAllFails(rq) ==
    IF Chunked(rq)
    THEN rq.readErr
    ELSE ContentLength(rq) > 0 /\ (rq.readErr \/ ContentLength(rq) > Len(rq.body.raw))

\* fault variant of FilterEnabled: the body is filtered whatever the flag
FilterAlways(wo) == TRUE

\* main.go:109

FilterEnabled(wo) == wo

\* fault variant of ParsePayload: the error of json.Unmarshal is dropped
UnmarshalLenient(body) == [err |-> FALSE, p |-> Unmarshal(body.json).p]

\* fault variant of ParsePayload: a payload without a tag is an error
ParsePayloadRequireTag(body) ==
    [err |-> Unmarshal(body.json).err \/ Unmarshal(body.json).p.Tag = "",
     p |-> Unmarshal(body.json).p]

\* main.go:113  json.Unmarshal(body, &payload) and its err != nil
ParsePayload(body) == Unmarshal(body.json)

\* fault variants of TagIsLatest: every tag passes, no tag passes
TagIsLatestAlways(tag) == TRUE

TagIsLatestNever(tag) == FALSE

\* main.go:129

TagIsLatest(tag) == tag = "latest"

\* main.go:135
NotLatestBody(tag) ==
    "{\"message\":\"Webhook received but not forwarded - tag is not latest\",\"tag\":\""
        \o tag \o "\"}"

\* main.go:152
QueuedBody(id) ==
    "{\"message\":\"Webhook received and queued for processing\",\"webhook_id\":\""
        \o id \o "\"}"

\* fault variant of Forwarded: the name is compared without strings.ToLower
ForwardedExactCompare(name) == name # H_authorization

\* main.go:145

Forwarded(name) == ToLower(name) # H_authorization

\* fault variant of HeadersToForward: only the first value of a header is kept
HeadersToForwardFirstValue(header) ==
    [name \in {n \in DOMAIN header : Forwarded(n)} |-> <<header[name][1]>>]

\* main.go:143-148
HeadersToForward(header) ==
    [name \in {n \in DOMAIN header : Forwarded(n)} |-> header[name]]

NoLocals == [id |-> "", body |-> "", headersToForward |-> <<>>, shouldForward |-> FALSE]

Returned(rw) == [w |-> rw, pos |-> "returned", local |-> NoLocals]

\* main.go:98: the handler waits in io.ReadAll(r.Body) for the body
Reading == [w |-> NewResponseWriter, pos |-> "reading", local |-> NoLocals]

\* fault variant of ShouldForwardDefault: the variable starts as false
ShouldForwardUnset == FALSE

\* main.go:106  var shouldForward = true
ShouldForwardDefault == TRUE

\* the handler goes on to the copy of the headers (main.go:142-148)
Accepted(rw, rq, shouldForward) ==
    [w |-> rw,
     pos |-> "accepted",
     local |-> [id |-> rq.id,
                body |-> RequestBody(rq).raw,
                headersToForward |-> HeadersToForward(RequestHeader(rq.header, rq.proto)),
                shouldForward |-> shouldForward]]

\* fault variant of NotLatest: the return is missing, so the handler goes on
\* with shouldForward = false
NotLatestFallThrough(rq, tag) ==
    Accepted(Write(WriteHeader(NewResponseWriter, 200), NotLatestBody(tag)), rq, FALSE)

\* main.go:129-136: shouldForward = false, the 200 is written, return
NotLatest(rq, tag) ==
    Returned(Write(WriteHeader(NewResponseWriter, 200), NotLatestBody(tag)))

\* main.go:86-148: from the id check to the copy of the headers. The result
\* is the response writer, the handler's position ("returned" after an
\* early return, "accepted" before the 201 is written) and its locals.
ServeWebhook(wo, rq) ==
    LET id == rq.id
        parsed == ParsePayload(RequestBody(rq))
        tag == parsed.p.Tag
    IN  IF ~IdMatches(id)
        THEN Returned(HttpError(NewResponseWriter, "Unauthorized", 401))
        ELSE IF ReadAllFails(rq)
        THEN Returned(HttpError(NewResponseWriter, "Bad Request", 400))
        ELSE IF FilterEnabled(wo) /\ parsed.err
        THEN Returned(HttpError(NewResponseWriter, "Bad Request", 400))
        ELSE IF FilterEnabled(wo) /\ ~TagIsLatest(tag)
        THEN NotLatest(rq, tag)
        ELSE Accepted(NewResponseWriter, rq, ShouldForwardDefault)

\* main.go:151-152
Respond201(rw, id) == Write(WriteHeader(rw, 201), QueuedBody(id))

(***************************************************************************)
(* The deferred goroutine (main.go:157-220).                               *)
(***************************************************************************)
\* main.go:179-180: Header.Set stores under the canonical key
InjectedHeader ==
    (CanonicalMIMEHeaderKey(H_Authorization) :> <<"Bearer " \o apiKey>>)
    @@ (CanonicalMIMEHeaderKey(H_ContentType) :> <<"application/json">>)

\* main.go:179-186: the injected headers are set first, then every
\* forwarded header is assigned under its own name
OutboundHeader(headersToForward) ==
    [name \in DOMAIN InjectedHeader \cup DOMAIN headersToForward |->
        IF name \in DOMAIN headersToForward
        THEN headersToForward[name]
        ELSE InjectedHeader[name]]

\* main.go:169
WatchtowerFullURL(base) == base \o U_update

\* main.go:172-186: the request handed to client.Do
OutboundRequest(base, body, headersToForward) ==
    [method |-> "POST",
     url |-> WatchtowerFullURL(base),
     header |-> OutboundHeader(headersToForward),
     body |-> body]

Failed(text) == [err |-> text, status |-> 0]

Responded(status) == [err |-> "", status |-> status]

NoResult == [err |-> "", status |-> 0]

AllOutcomes == {Failed("timeout"), Failed("connection refused"),
                Responded(200), Responded(204), Responded(404), Responded(500)}

FewOutcomes == {Failed("timeout"), Responded(200), Responded(404)}

\* what client.Do can return for a URL: without an http(s) scheme, or
\* without a host, it fails before anything is sent
DoOutcomes(url, outcomes) ==
    IF ~SchemeSupported(url) THEN {Failed("unsupported protocol scheme")}
    ELSE IF NoRequestHost(url) THEN {Failed("no Host in request URL")}
    ELSE outcomes

\* main.go:215
IsSuccess(res) == res.err = "" /\ res.status >= 200 /\ res.status < 300

\* fault variant of AfterDo: a failed call is tried again
AfterDoRetry(res) == IF IsSuccess(res) THEN "received" ELSE "sleeping"

\* main.go:192-208: on an error the goroutine logs and ends; with a
\* response it goes on to read the body of the response
AfterDo(res) == IF res.err # "" THEN "done" ELSE "received"

\* fault variant of ResponseAfterDo: a failed call is reported on the
\* response writer of the request
ResponseAfterDoReport(rw, res) ==
    IF IsSuccess(res) THEN rw ELSE HttpError(rw, "Bad Gateway", 502)

\* main.go:192-220: the goroutine only logs; it never uses w
ResponseAfterDo(rw, res) == rw

\* the duration of a goroutine that has not called time.Sleep
NoSleep == Signed(FALSE, <<0>>)

\* fault variant of Captured: the data lives in variables shared by all
\* requests, which hold what the first request stored
CapturedShared(r) == local[1]

\* the variables of its own handler invocation that a goroutine closes over
\* (body, headersToForward, id: main.go:98, 143, 87)

Captured(r) == local[r]

\* fault variant of AtGoStatement: the go statement precedes the write of the 201
AtGoStatementEarly(r) == hpc[r] \in {"accepted", "responded"}

\* main.go:150-157: the go statement follows the write of the 201
AtGoStatement(r) == hpc[r] = "responded"

(***************************************************************************)
(* State machine.                                                          *)
(***************************************************************************)
\* the greatest number of requests of a run
MaxRequests == 2

Slots == 1..MaxRequests

Init(slots, watchEnvs, urlEnvs, delayEnvs) ==
    /\ \E env \in watchEnvs : watchOnly = ParseWatchOnly(env)
    /\ urlEnv \in urlEnvs
    /\ watchtowerURL = DefaultURL(urlEnv)
    /\ delaySecondsEnv \in delayEnvs
    /\ delaySeconds = ParseDelaySeconds(delaySecondsEnv)
    /\ req = [r \in slots |-> NoRequest]
    /\ w = [r \in slots |-> NewResponseWriter]
    /\ hpc = [r \in slots |-> "idle"]
    /\ local = [r \in slots |-> NoLocals]
    /\ spawned = [r \in slots |-> 0]
    /\ sleepArg = [r \in slots |-> NoSleep]
    /\ tpc = [r \in slots |-> "none"]
    /\ outbound = [r \in slots |-> <<>>]
    /\ result = [r \in slots |-> NoResult]

\* a request arrives and the handler checks the id (main.go:85-95): it
\* answers 401, or goes on to wait for the body; requests are numbered in
\* the order of their arrival
HandleWebhook(r, requests) ==
    /\ hpc[r] = "idle"
    /\ \A q \in DOMAIN hpc : q < r => hpc[q] # "idle"
    /\ \E rq \in requests :
          LET out == IF IdMatches(rq.id) THEN Reading ELSE ServeWebhook(watchOnly, rq)
          IN  /\ req' = [req EXCEPT ![r] = rq]
              /\ w' = [w EXCEPT ![r] = out.w]
              /\ hpc' = [hpc EXCEPT ![r] = out.pos]
              /\ local' = [local EXCEPT ![r] = out.local]
    /\ UNCHANGED <<config, spawned, sleepArg, tpc, outbound, result>>

\* main.go:98-148: io.ReadAll returns with the body or an error, and the
\* handler runs up to its early return or up to the copy of the headers
ReadBody(r) ==
    /\ hpc[r] = "reading"
    /\ LET out == ServeWebhook(watchOnly, req[r])
       IN  /\ w' = [w EXCEPT ![r] = out.w]
           /\ hpc' = [hpc EXCEPT ![r] = out.pos]
           /\ local' = [local EXCEPT ![r] = out.local]
    /\ UNCHANGED <<config, req, spawned, sleepArg, tpc, outbound, result>>

\* main.go:150-153: the 201 is written
Respond(r) ==
    /\ hpc[r] = "accepted"
    /\ w' = [w EXCEPT ![r] = Respond201(w[r], local[r].id)]
    /\ hpc' = [hpc EXCEPT ![r] = "responded"]
    /\ UNCHANGED <<config, req, local, spawned, sleepArg, tpc, outbound, result>>

\* main.go:156-160: the goroutine is started and begins its sleep; the
\* handler returns
Schedule(r) ==
    /\ AtGoStatement(r)
    /\ spawned' = [spawned EXCEPT ![r] = IF local[r].shouldForward THEN spawned[r] + 1 ELSE spawned[r]]
    /\ tpc' = [tpc EXCEPT ![r] = IF local[r].shouldForward THEN "sleeping" ELSE tpc[r]]
    /\ sleepArg' = [sleepArg EXCEPT ![r] =
                        IF local[r].shouldForward THEN SleepDuration(delaySeconds) ELSE sleepArg[r]]
    /\ hpc' = [hpc EXCEPT ![r] = "returned"]
    /\ UNCHANGED <<config, req, w, local, outbound, result>>

\* main.go:160-191: the sleep is over; the request is built and handed to
\* client.Do, unless http.NewRequest fails (main.go:173-176)
TaskSend(r) ==
    /\ tpc[r] = "sleeping"
    /\ LET c == Captured(r)
           call == OutboundRequest(watchtowerURL, c.body, c.headersToForward)
       IN  IF NewRequestFails(call.url)
           THEN /\ tpc' = [tpc EXCEPT ![r] = "done"]
                /\ UNCHANGED outbound
           ELSE /\ tpc' = [tpc EXCEPT ![r] = "calling"]
                /\ outbound' = [outbound EXCEPT ![r] = Append(outbound[r], call)]
    /\ UNCHANGED <<config, req, w, hpc, local, spawned, sleepArg, result>>

\* main.go:191-206: client.Do returns an error, and the goroutine logs it
\* and ends, or a response, whose body the goroutine goes on to read
TaskReturn(r, outcomes) ==
    /\ tpc[r] = "calling"
    /\ \E res \in DoOutcomes(outbound[r][Len(outbound[r])].url, outcomes) :
          /\ result' = [result EXCEPT ![r] = res]
          /\ tpc' = [tpc EXCEPT ![r] = AfterDo(res)]
          /\ w' = [w EXCEPT ![r] = ResponseAfterDo(w[r], res)]
    /\ UNCHANGED <<config, req, hpc, local, spawned, sleepArg, outbound>>

\* main.go:208-220: io.ReadAll(resp.Body) returns, within the Timeout of the
\* client; the goroutine logs the outcome and ends
TaskFinish(r) ==
    /\ tpc[r] = "received"
    /\ tpc' = [tpc EXCEPT ![r] = "done"]
    /\ UNCHANGED <<config, req, w, hpc, local, spawned, sleepArg, outbound, result>>

\* concurrent requests, a few kinds of request each
InitFew == Init(Slots, {E_unset, E_TRUE}, {U_example}, {E_unset})

Next ==
    \/ \E r \in Slots : HandleWebhook(r, FewRequests)
    \/ \E r \in Slots : ReadBody(r)
    \/ \E r \in Slots : Respond(r)
    \/ \E r \in Slots : Schedule(r)
    \/ \E r \in Slots : TaskSend(r)
    \/ \E r \in Slots : TaskReturn(r, FewOutcomes)
    \/ \E r \in Slots : TaskFinish(r)

Spec == InitFew /\ [][Next]_vars

\* one request, of every kind modelled, under every configuration modelled
InitSingle ==
    Init({1}, {E_unset, E_true, E_TRUE, E_True, E_false, E_yes}, {E_unset, U_example}, {E_unset})

NextSingle ==
    \/ HandleWebhook(1, AllRequests)
    \/ ReadBody(1)
    \/ Respond(1)
    \/ Schedule(1)
    \/ TaskSend(1)
    \/ TaskReturn(1, AllOutcomes)
    \/ TaskFinish(1)

SpecSingle == InitSingle /\ [][NextSingle]_vars

\* one request, of a few kinds, under every DELAY_SECONDS modelled
InitDelay == Init({1}, {E_unset}, {U_example}, DelayEnvs)

NextDelay ==
    \/ HandleWebhook(1, FewRequests)
    \/ ReadBody(1)
    \/ Respond(1)
    \/ Schedule(1)
    \/ TaskSend(1)
    \/ TaskReturn(1, FewOutcomes)
    \/ TaskFinish(1)

SpecDelay == InitDelay /\ [][NextDelay]_vars

\* one request, of a few kinds, with base URLs that net/url accepts and
\* rejects.  The Go scheduler runs every runnable goroutine, time.Sleep
\* returns, and client.Do and the read of the response body return within
\* the Timeout of the client (main.go:164-166), so no step of the handler
\* after the body is read, and no step of the goroutine, stays enabled for
\* ever without being taken.  The read of the request body has no such
\* bound: the server sets no read timeout.
InitLive == Init({1}, {E_unset, E_TRUE}, {E_unset, U_example, U_ipport}, {E_unset})

NextLive ==
    \/ HandleWebhook(1, FewRequests)
    \/ ReadBody(1)
    \/ Respond(1)
    \/ Schedule(1)
    \/ TaskSend(1)
    \/ TaskReturn(1, FewOutcomes)
    \/ TaskFinish(1)

SpecLive ==
    /\ InitLive
    /\ [][NextLive]_vars
    /\ WF_vars(Respond(1))
    /\ WF_vars(Schedule(1))
    /\ WF_vars(TaskSend(1))
    /\ WF_vars(TaskReturn(1, FewOutcomes))
    /\ WF_vars(TaskFinish(1))

(***************************************************************************)
(* Properties.                                                             *)
(***************************************************************************)
\* the request of slot r has been dispatched to the handler
Dispatched(r) == hpc[r] # "idle"

\* the read of the body fails: there is a body to read, chunked or of the
\* announced length, and the connection breaks or ends before it is through
ReadBreaks(r) ==
    /\ Chunked(req[r]) \/ ContentLength(req[r]) > 0
    /\ req[r].readErr \/ (~Chunked(req[r]) /\ ContentLength(req[r]) > Len(req[r].body.raw))

\* the id is the configured one and the body was read
ValidAndRead(r) ==
    Dispatched(r) /\ hpc[r] # "reading" /\ req[r].id = webhookID /\ ~ReadBreaks(r)

\* the calls made for any request, with the request they were made for
Calls == UNION {{<<r, i>> : i \in DOMAIN outbound[r]} : r \in DOMAIN outbound}

\* C1: a request whose id differs from WEBHOOK_ID is answered 401 and
\* nothing else happens for it: the handler has returned, no goroutine was
\* started and no outbound call exists, whatever the body and the filter flag.
C1_MismatchUnauthorized ==
    \A r \in DOMAIN req :
        Dispatched(r) /\ req[r].id # webhookID
        => /\ w[r].status = 401
           /\ w[r].status \notin {400, 200, 201}
           /\ hpc[r] = "returned"
           /\ spawned[r] = 0
           /\ tpc[r] = "none"
           /\ outbound[r] = <<>>

\* a mismatching id, with filtering enabled and a body that is not JSON
C1_Witness ==
    \E r \in DOMAIN req :
        /\ Dispatched(r)
        /\ req[r].id # webhookID
        /\ watchOnly
        /\ RequestBody(req[r]) = B_notjson
        /\ w[r].status = 401

\* C2: every outbound call carries Content-Type: application/json, also
\* when the inbound request had a Content-Type of its own.
C2_ContentTypeAlwaysJSON ==
    \A c \in Calls :
        LET h == outbound[c[1]][c[2]].header
        IN  H_ContentType \in DOMAIN h /\ h[H_ContentType] = <<"application/json">>

\* the values of the inbound header lines named authorization, in any case
InboundAuthorizationValues(rq) ==
    {rq.header[k].value : k \in {j \in DOMAIN rq.header : ToLower(rq.header[j].name) = H_authorization}}

\* the values of the inbound header lines not named authorization
OtherInboundValues(rq) ==
    {rq.header[k].value : k \in {j \in DOMAIN rq.header : ToLower(rq.header[j].name) # H_authorization}}

\* C3, as stated: every outbound call carries Authorization: Bearer <api
\* key> and no other header named authorization in any letter case, and no
\* value of an inbound authorization header occurs among the outbound
\* header values.
C3_AuthorizationReplaced ==
    \A c \in Calls :
        LET h == outbound[c[1]][c[2]].header
        IN  /\ H_Authorization \in DOMAIN h
            /\ h[H_Authorization] = <<"Bearer " \o apiKey>>
            /\ \A n \in DOMAIN h :
                  /\ ToLower(n) = H_authorization => n = H_Authorization
                  /\ \A j \in DOMAIN h[n] : h[n][j] \notin InboundAuthorizationValues(req[c[1]])

\* C3, amended: every outbound call carries Authorization: Bearer <api key>
\* and no other header named authorization in any letter case, and a value
\* of an inbound authorization header occurs among the outbound header
\* values only where the proxy sets that value itself or where an inbound
\* header of another name has it.
C3_AuthorizationNotCarried ==
    \A c \in Calls :
        LET h == outbound[c[1]][c[2]].header
        IN  /\ H_Authorization \in DOMAIN h
            /\ h[H_Authorization] = <<"Bearer " \o apiKey>>
            /\ \A n \in DOMAIN h :
                  /\ ToLower(n) = H_authorization => n = H_Authorization
                  /\ \A j \in DOMAIN h[n] :
                        h[n][j] \in InboundAuthorizationValues(req[c[1]])
                        => \/ n = H_Authorization /\ h[n][j] = "Bearer " \o apiKey
                           \/ n = H_ContentType /\ h[n][j] = "application/json"
                           \/ n # H_Authorization /\ h[n][j] \in OtherInboundValues(req[c[1]])

\* a call made for a request that repeats the value of its authorization
\* line under X-Custom: the call has the key under Authorization and the
\* repeated value under X-Custom
C3_Witness ==
    \E c \in Calls :
        /\ req[c[1]].header = WithLength(RepeatedLines, B_latest)
        /\ req[c[1]].body = B_latest
        /\ "tokA" \in InboundAuthorizationValues(req[c[1]])
        /\ outbound[c[1]][c[2]].header[H_Authorization] = <<"Bearer k1">>
        /\ outbound[c[1]][c[2]].header[H_XCustom] = <<"tokA">>

\* the body of request r decodes into DockerHubPayload
Decodes(r) == ~Unmarshal(RequestBody(req[r]).json).err

\* push_data.tag of the body of request r, as decoded
TagOf(r) == Unmarshal(RequestBody(req[r]).json).p.Tag

\* C4: with filtering enabled, a request with a valid id whose body decodes
\* to a tag other than "latest" is answered 200 with the body that names the
\* tag, the handler has returned, and no goroutine or outbound call exists.
C4_NotLatestFiltered ==
    \A r \in DOMAIN req :
        ValidAndRead(r) /\ watchOnly /\ Decodes(r) /\ TagOf(r) # "latest"
        => /\ w[r].status = 200
           /\ w[r].body = "{\"message\":\"Webhook received but not forwarded - tag is not latest\",\"tag\":\""
                            \o TagOf(r) \o "\"}"
           /\ RequestBody(req[r]) = B_v123 =>
                w[r].body = "{\"message\":\"Webhook received but not forwarded - tag is not latest\",\"tag\":\"v1.2.3\"}"
           /\ hpc[r] = "returned"
           /\ spawned[r] = 0
           /\ tpc[r] = "none"
           /\ outbound[r] = <<>>

\* the example of the specification: tag v1.2.3 with filtering enabled
C4_Witness ==
    \E r \in DOMAIN req :
        /\ ValidAndRead(r)
        /\ watchOnly
        /\ RequestBody(req[r]) = B_v123
        /\ w[r].status = 200

\* C5: with filtering disabled, a request with a valid id whose body was
\* read is never rejected or filtered; once its response is written it is
\* the 201, and once its handler has returned exactly one goroutine was
\* started for it, whatever the body.
C5_UnfilteredAccepted ==
    \A r \in DOMAIN req :
        ValidAndRead(r) /\ ~watchOnly
        => /\ hpc[r] = "accepted" => w[r].status = 0 /\ spawned[r] = 0
           /\ hpc[r] = "responded" => w[r].status = 201 /\ spawned[r] = 0
           /\ hpc[r] = "returned" => w[r].status = 201 /\ spawned[r] = 1 /\ tpc[r] # "none"
           /\ local[r].body = RequestBody(req[r]).raw
           /\ \A i \in DOMAIN outbound[r] : outbound[r][i].body = RequestBody(req[r]).raw

\* a body that is not JSON, accepted and forwarded with filtering disabled
C5_Witness ==
    \E r \in DOMAIN req :
        /\ ValidAndRead(r)
        /\ ~watchOnly
        /\ RequestBody(req[r]) = B_notjson
        /\ w[r].status = 201
        /\ spawned[r] = 1
        /\ Len(outbound[r]) = 1
        /\ outbound[r][1].body = "not-json"

\* C6: with filtering enabled, a request with a valid id whose body does not
\* decode is answered 400, never 201, and no goroutine is started for it.
C6_UndecodableRejected ==
    \A r \in DOMAIN req :
        ValidAndRead(r) /\ watchOnly /\ ~Decodes(r)
        => /\ w[r].status = 400
           /\ hpc[r] = "returned"
           /\ spawned[r] = 0
           /\ tpc[r] = "none"
           /\ outbound[r] = <<>>

\* the example of the specification: the raw text not-json
C6_Witness ==
    \E r \in DOMAIN req :
        /\ ValidAndRead(r)
        /\ watchOnly
        /\ RequestBody(req[r]) = B_notjson
        /\ w[r].status = 400

\* C7: whenever the goroutine of a request exists (it sleeps, calls or has
\* ended) or a call was made for it, the handler has written the 201 and
\* its body before.
C7_ResponseBeforeTask ==
    \A r \in DOMAIN req :
        spawned[r] > 0 \/ tpc[r] # "none" \/ outbound[r] # <<>>
        => /\ w[r].status = 201
           /\ w[r].headerWrites = 1
           /\ w[r].body = "{\"message\":\"Webhook received and queued for processing\",\"webhook_id\":\""
                            \o req[r].id \o "\"}"

\* a goroutine in its sleep while another request is not yet answered
C7_Witness ==
    \E r, q \in DOMAIN req :
        /\ tpc[r] = "sleeping"
        /\ w[r].status = 201
        /\ hpc[q] = "accepted"

\* C8: no request ever has more than one outbound call, and after a call
\* that failed (transport error, timeout, or a status outside 2xx) the
\* goroutine has ended, or is reading the body of the response before it
\* ends, with that single call made.
C8_AtMostOneAttempt ==
    \A r \in DOMAIN req :
        /\ Len(outbound[r]) <= 1
        /\ spawned[r] <= 1
        /\ result[r].err # "" => tpc[r] = "done" /\ Len(outbound[r]) = 1
        /\ result[r].status # 0 /\ result[r].status \notin 200..299
           => tpc[r] \in {"received", "done"} /\ Len(outbound[r]) = 1

\* one request whose call timed out and one whose call was answered 404
C8_Witness ==
    \E r, q \in DOMAIN req :
        /\ result[r] = Failed("timeout")
        /\ result[q] = Responded(404)
        /\ tpc[r] = "done"
        /\ tpc[q] = "done"

\* the names, other than authorization, of the headers the handler finds
\* in the request
OwnForwardedNames(rq) == DOMAIN RequestHeader(rq.header, rq.proto) \ {H_Authorization}

\* C9: every goroutine that has ended made its own call (nothing is
\* deduplicated, also between identical requests), and every call carries
\* the body and the non-authorization headers of the request it was made
\* for, and no header name from elsewhere.
C9_IndependentDeliveries ==
    \A r \in DOMAIN req :
        /\ tpc[r] \in {"calling", "received", "done"} => Len(outbound[r]) = 1
        /\ \A i \in DOMAIN outbound[r] :
              LET call == outbound[r][i]
              IN  /\ call.body = RequestBody(req[r]).raw
                  /\ \A n \in OwnForwardedNames(req[r]) :
                        n \in DOMAIN call.header /\ call.header[n] = ValuesOf(req[r], n)
                  /\ DOMAIN call.header \subseteq
                        OwnForwardedNames(req[r]) \cup {H_Authorization, H_ContentType}

\* two identical requests, both delivered, next to the case of two
\* different requests being told apart
C9_Witness ==
    \E r, q \in DOMAIN req :
        /\ r # q
        /\ req[r] = req[q]
        /\ tpc[r] = "done"
        /\ tpc[q] = "done"
        /\ Len(outbound[r]) = 1
        /\ Len(outbound[q]) = 1

\* C10: with filtering enabled and tag "latest", the handler does what it
\* does for the same request with filtering disabled: same response, same
\* captured data, one goroutine, and the same outbound request.
C10_LatestAsUnfiltered ==
    \A r \in DOMAIN req :
        ValidAndRead(r) /\ watchOnly /\ Decodes(r) /\ TagOf(r) = "latest"
        => LET off == ServeWebhook(FALSE, req[r])
           IN  /\ off.pos = "accepted"
               /\ local[r] = off.local
               /\ hpc[r] \in {"accepted", "responded", "returned"}
               /\ hpc[r] = "accepted" => w[r] = off.w
               /\ hpc[r] \in {"responded", "returned"} => w[r] = Respond201(off.w, off.local.id)
               /\ hpc[r] = "returned" => spawned[r] = 1
               /\ \A i \in DOMAIN outbound[r] :
                     outbound[r][i] = OutboundRequest(watchtowerURL, off.local.body,
                                                      off.local.headersToForward)

\* a "latest" push written with upper-case keys, forwarded with filtering enabled
C10_Witness ==
    \E r \in DOMAIN req :
        /\ ValidAndRead(r)
        /\ watchOnly
        /\ RequestBody(req[r]) = B_upper
        /\ w[r].status = 201
        /\ Len(outbound[r]) = 1


\* C11: the response of a request does not depend on what the downstream
\* service does: two requests that are the same and whose handlers have
\* returned have the same response (status, body, number of status lines),
\* whatever client.Do returned or has yet to return for either of them.
C11_ResponseIndependentOfDownstream ==
    \A r, q \in DOMAIN req :
        hpc[r] = "returned" /\ hpc[q] = "returned" /\ req[r] = req[q]
        => w[r] = w[q]

\* the same request twice, one call timed out and the other answered 200
C11_Witness ==
    \E r, q \in DOMAIN req :
        /\ req[r] = req[q]
        /\ tpc[r] = "done" /\ result[r] = Failed("timeout")
        /\ tpc[q] = "done" /\ result[q] = Responded(200)
        /\ w[r].status = 201
        /\ w[q].status = 201

\* C12: for every accepted DELAY_SECONDS the sleep of the goroutine, in
\* nanoseconds, is at least delaySeconds times 10^9.
C12_SleepNeverShorter ==
    \A r \in DOMAIN req :
        tpc[r] # "none"
        => Cmp(SleepAtLeast(sleepArg[r]), TimesSecond(delaySeconds)) >= 0

\* C13: every outbound call is a POST to WATCHTOWER_URL followed by
\* /v1/update, where an unset WATCHTOWER_URL stands for localhost:8080.
C13_TargetIsBasePlusPath ==
    \A c \in Calls :
        LET call == outbound[c[1]][c[2]]
            base == IF urlEnv = <<>>
                    THEN <<"l","o","c","a","l","h","o","s","t",":","8","0","8","0">>
                    ELSE urlEnv
        IN  /\ call.method = "POST"
            /\ call.url = base \o <<"/","v","1","/","u","p","d","a","t","e">>
            /\ urlEnv = U_example =>
                 call.url = <<"h","t","t","p","s",":","/","/","w","t",".","e","x","a","m","p","l","e",
                              ":","9","9","9","9","/","v","1","/","u","p","d","a","t","e">>

\* a call made with WATCHTOWER_URL unset
C13_Witness ==
    \E c \in Calls :
        /\ urlEnv = <<>>
        /\ outbound[c[1]][c[2]].url =
              <<"l","o","c","a","l","h","o","s","t",":","8","0","8","0","/","v","1","/","u","p","d","a","t","e">>
        /\ tpc[c[1]] = "done"

\* C14, as stated: a goroutine that has ended has made exactly one
\* outbound call.
C14_OneAttemptAtEnd ==
    \A r \in DOMAIN req : tpc[r] = "done" => Len(outbound[r]) = 1

\* the base URLs modelled that url.Parse rejects once /v1/update is appended
RejectedBases == {U_ipport}

\* C14, amended: every request answered with 201 is eventually followed by
\* the end of its goroutine, which by then has made exactly one outbound
\* call, or none when http.NewRequest rejected the target URL.
C14_TaskTerminates ==
    \A r \in {1} :
        (w[r].status = 201)
        ~> (/\ tpc[r] = "done"
            /\ Len(outbound[r]) = IF urlEnv \in RejectedBases THEN 0 ELSE 1)

\* a goroutine that ended without a call, and the 201 of its request
C14_Witness ==
    \E r \in DOMAIN req :
        /\ w[r].status = 201
        /\ urlEnv = U_ipport
        /\ tpc[r] = "done"
        /\ outbound[r] = <<>>

\* the header lines of a request whose name is not authorization
CarriedLines(rq) ==
    {k \in DOMAIN rq.header : ToLower(rq.header[k].name) # H_authorization}

\* C15, as stated: every inbound header other than Authorization is in
\* every outbound call of its request, under its (canonical) name and with
\* the values of all its lines in their order of arrival.
C15_HeadersCarried ==
    \A c \in Calls :
        LET rq == req[c[1]]
            h == outbound[c[1]][c[2]].header
        IN  \A k \in CarriedLines(rq) :
                LET name == CanonicalMIMEHeaderKey(rq.header[k].name)
                    same == SelectSeq(rq.header,
                                LAMBDA l : CanonicalMIMEHeaderKey(l.name) = name)
                IN  /\ name \in DOMAIN h
                    /\ h[name] = [i \in DOMAIN same |-> same[i].value]

\* the request is of HTTP/1.1 or later and has a Transfer-Encoding line
SentChunked(rq) ==
    /\ rq.proto.major > 1 \/ (rq.proto.major = 1 /\ rq.proto.minor >= 1)
    /\ \E k \in DOMAIN rq.header : ToLower(rq.header[k].name) = ToLower(H_TransferEncoding)

\* the header lines the server hands to the handler under their name: not
\* Host, not Transfer-Encoding, and of a chunked request neither
\* Content-Length nor Trailer
HandedLines(rq) ==
    {k \in DOMAIN rq.header :
        /\ ToLower(rq.header[k].name) \notin {ToLower(H_Host), ToLower(H_TransferEncoding)}
        /\ SentChunked(rq) =>
              ToLower(rq.header[k].name) \notin {ToLower(H_ContentLength), ToLower(H_Trailer)}}

\* C15, amended: every inbound header other than Authorization that the
\* server hands to the handler is in every outbound call of its request,
\* under its (canonical) name and with the values of all its lines in their
\* order of arrival, a repeated Content-Length once.
C15_HandedHeadersCarried ==
    \A c \in Calls :
        LET rq == req[c[1]]
            h == outbound[c[1]][c[2]].header
        IN  \A k \in CarriedLines(rq) \cap HandedLines(rq) :
                LET name == CanonicalMIMEHeaderKey(rq.header[k].name)
                    same == SelectSeq(rq.header,
                                LAMBDA l : CanonicalMIMEHeaderKey(l.name) = name)
                IN  /\ name \in DOMAIN h
                    /\ h[name] = IF name = H_ContentLength
                                 THEN <<same[1].value>>
                                 ELSE [i \in DOMAIN same |-> same[i].value]

\* the call of a chunked request of HTTP/1.2 with a Host line and a
\* Content-Length: it carries both values of X-Custom, and neither Host,
\* Transfer-Encoding, Trailer nor Content-Length
C15_Witness ==
    \E c \in Calls :
        LET lines == {req[c[1]].header[k] : k \in DOMAIN req[c[1]].header}
            h == outbound[c[1]][c[2]].header
        IN  /\ req[c[1]].proto = HTTP12
            /\ req[c[1]].header = WithLength(ChunkedLines, B_latest)
            /\ Hdr(H_Host, "proxy:3000") \in lines
            /\ Hdr(H_TransferEncoding, "chunked") \in lines
            /\ Hdr(H_Trailer, "X-Sum") \in lines
            /\ Hdr(H_x_custom, "x1") \in lines
            /\ h[H_XCustom] = <<"x1", "x2">>
            /\ DOMAIN h \cap {H_Host, H_TransferEncoding, H_Trailer, H_ContentLength} = {}

\* C16: the delay in effect is a positive number of seconds fixed at
\* startup: the value of DELAY_SECONDS when it parses as a base-10 int64
\* greater than zero, and 20 otherwise; it is the same in every state.
C16_DelayFixedAndPositive ==
    /\ Cmp(delaySeconds, <<0>>) > 0
    /\ delaySecondsEnv \in {E_unset, D_0, D_minus3, D_abc, D_5s, D_2pow63} => delaySeconds = <<2, 0>>
    /\ delaySecondsEnv = D_5 => delaySeconds = <<5>>
    /\ delaySecondsEnv \in {D_plus7, D_007} => delaySeconds = <<7>>
    /\ delaySecondsEnv = D_9223372036 => delaySeconds = <<9,2,2,3,3,7,2,0,3,6>>
    /\ delaySecondsEnv = D_9223372037 => delaySeconds = <<9,2,2,3,3,7,2,0,3,7>>
    /\ delaySecondsEnv = D_18446744074 => delaySeconds = <<1,8,4,4,6,7,4,4,0,7,4>>
    /\ delaySecondsEnv = D_maxint64
         => delaySeconds = <<9,2,2,3,3,7,2,0,3,6,8,5,4,7,7,5,8,0,7>>

\* DELAY_SECONDS=0: a goroutine has slept the default 20 seconds and ended
C16_Witness ==
    \E r \in DOMAIN req :
        /\ delaySecondsEnv = D_0
        /\ delaySeconds = <<2, 0>>
        /\ sleepArg[r] = Signed(FALSE, <<2,0,0,0,0,0,0,0,0,0,0>>)
        /\ tpc[r] = "done"

\* C17: a request with the configured id whose body cannot be read is
\* answered 400 and nothing else: no 200 or 201, the handler has returned,
\* no goroutine and no outbound call, with filtering enabled or disabled.
C17_ReadFailureRejected ==
    \A r \in DOMAIN req :
        Dispatched(r) /\ hpc[r] # "reading" /\ req[r].id = webhookID /\ ReadBreaks(r)
        => /\ w[r].status = 400
           /\ w[r].headerWrites = 1
           /\ w[r].body = "Bad Request\n"
           /\ hpc[r] = "returned"
           /\ local[r] = NoLocals
           /\ spawned[r] = 0
           /\ tpc[r] = "none"
           /\ outbound[r] = <<>>

\* a read failure on a chunked body of HTTP/1.2 that the filter would have
\* answered with 200
C17_Witness ==
    \E r \in DOMAIN req :
        /\ req[r].id = webhookID
        /\ req[r].proto = HTTP12
        /\ req[r].header = ChunkedLines
        /\ req[r].readErr
        /\ watchOnly
        /\ RequestBody(req[r]) = B_v123
        /\ w[r].status = 400

\* the number of goroutines ever started
RECURSIVE TasksCreated(_)
TasksCreated(S) ==
    IF S = {} THEN 0
    ELSE LET r == CHOOSE x \in S : TRUE IN spawned[r] + TasksCreated(S \ {r})

\* the number of 201 responses ever written
Responses201 == Cardinality({r \in DOMAIN w : w[r].status = 201})

\* C18, as stated: in every state as many goroutines were started as 201
\* responses were written.
C18_TasksEqual201s == TasksCreated(DOMAIN spawned) = Responses201

\* C18, amended: there are never more goroutines than 201 responses, and
\* as many when no handler is between its 201 and its go statement; a
\* handler that has returned wrote a 201 if and only if it started exactly
\* one goroutine; and a handler that reaches the go statement has
\* shouldForward = true.
C18_TaskIffAccepted ==
    /\ TasksCreated(DOMAIN spawned) <= Responses201
    /\ (\A r \in DOMAIN hpc : hpc[r] # "responded")
          => TasksCreated(DOMAIN spawned) = Responses201
    /\ \A r \in DOMAIN req :
          /\ spawned[r] \in {0, 1}
          /\ hpc[r] = "returned" => (w[r].status = 201 <=> spawned[r] = 1)
          /\ hpc[r] = "responded" => w[r].status = 201 /\ local[r].shouldForward

\* a 201 whose goroutine has ended, next to a request that was filtered
C18_Witness ==
    \E r, q \in DOMAIN req :
        /\ w[r].status = 201 /\ spawned[r] = 1 /\ tpc[r] = "done"
        /\ w[q].status = 200 /\ spawned[q] = 0 /\ hpc[q] = "returned"

\* C19: a request gets one status line: never more than one is written,
\* a handler that has returned has written exactly one, with a status
\* among 401, 400, 200 and 201, and once the goroutine exists the response
\* is the 201 and its body, with nothing after it.
C19_ExactlyOneStatus ==
    \A r \in DOMAIN req :
        /\ w[r].headerWrites <= 1
        /\ w[r].headerWrites = 0 <=> w[r].status = 0
        /\ hpc[r] = "returned"
             => /\ w[r].headerWrites = 1
                /\ w[r].status \in {401, 400, 200, 201}
        /\ tpc[r] # "none"
             => w[r] = [status |-> 201,
                        body |-> "{\"message\":\"Webhook received and queued for processing\",\"webhook_id\":\"hook1\"}",
                        headerWrites |-> 1]

\* a filtered request, answered 200 once
C19_Witness ==
    \E r \in DOMAIN req :
        /\ hpc[r] = "returned"
        /\ w[r].status = 200
        /\ w[r].headerWrites = 1
        /\ RequestBody(req[r]) = B_v123

\* the bodies modelled that decode but give no tag
TaglessBodies == {B_emptyobj, B_null, B_emptytag, B_tagnull}

\* the bodies modelled that json.Unmarshal rejects
UndecodableBodies == {B_notjson, B_empty, B_array, B_tagnumber}

\* C20: with filtering enabled, a request with a valid id whose body decodes
\* without a tag is answered 200 with an empty tag in the body and is not
\* forwarded; the answer is 400 only for a body that does not decode.
C20_TaglessFiltered ==
    \A r \in DOMAIN req :
        ValidAndRead(r) /\ watchOnly
        => /\ RequestBody(req[r]) \in TaglessBodies \/ (Decodes(r) /\ TagOf(r) = "")
                => /\ w[r].status = 200
                   /\ w[r].body = "{\"message\":\"Webhook received but not forwarded - tag is not latest\",\"tag\":\"\"}"
                   /\ hpc[r] = "returned"
                   /\ spawned[r] = 0
                   /\ tpc[r] = "none"
                   /\ outbound[r] = <<>>
           /\ w[r].status = 400
                => /\ ~Decodes(r)
                   /\ RequestBody(req[r]) \in AllBodies => RequestBody(req[r]) \in UndecodableBodies

\* the bytes {}x sent with Content-Length 2 and filtering enabled: the
\* body read is {}, answered 200
C20_Witness ==
    \E r \in DOMAIN req :
        /\ ValidAndRead(r)
        /\ watchOnly
        /\ req[r].body = B_emptyobj_x
        /\ RequestBody(req[r]) = B_emptyobj
        /\ w[r].status = 200
        /\ hpc[r] = "returned"

====
